---- MODULE Spec2Model ----
(***************************************************************************)
(* A model of render-weather-bot (src/main.py): the Telegram command       *)
(* handlers that maintain the settings record, the forecast pipeline       *)
(* (build_image / forecast_command) and the aggregation functions          *)
(* parse_yr, parse_current_conditions and deg_to_compass.                  *)
(*                                                                         *)
(* Units.  Timestamps are whole hours UTC counted from 00:00 UTC of day 0. *)
(* Bearings are hundredths of a degree (348.75 degrees is 34875).          *)
(* Temperatures and wind speeds are tenths (4.5 is 45); precipitation      *)
(* amounts of the feed are hundredths of a millimetre (1.2 mm is 120) and  *)
(* the rounded totals are tenths.  An optional number is <<>> (None) or    *)
(* <<v>>.                                                                  *)
(***************************************************************************)
EXTENDS Integers, Sequences, FiniteSets, TLC

VARIABLES
    data,        \* the settings record of DATA_FILE (load_data / save_data)
    conv,        \* ConversationHandler state of each user: "END" or "NAME"
    user_data,   \* context.user_data of each user: the pending coordinates
    run,         \* what the last /forecast run did and returned
    now,         \* datetime.now(), in hours UTC
    raw,         \* the JSON document handed to the aggregation
    parsed,      \* the aggregation's results for raw
    deg,         \* the bearing handed to deg_to_compass
    label        \* the label deg_to_compass returned

vars == <<data, conv, user_data, run, now, raw, parsed, deg, label>>

\* ------------------------------------------------------------------------
\* Bounds of the model.
MaxFeed == 3        \* the longest timeseries drawn
NumUsers == 2       \* Telegram users 1..NumUsers

\* Program constants.
WindowDays == 4     \* range(4) in parse_yr
TzOffsetHours == 3  \* Europe/Moscow is UTC+3 all year
NumDirs == 16       \* the % 16 of deg_to_compass

None == <<>>
Some(v) == <<v>>

\* ------------------------------------------------------------------------
\* JSON values as Python sees them after json.load: None, a number, a
\* string, a list, a dict.  A dict's keys are the fields of the record f.
JNull == [k |-> "null"]
JNum(v) == [k |-> "num", v |-> v]
\* A string; t is <<h>> when the text is an ISO timestamp of hour h, and
\* <<>> when it is some other non-empty text.
JStr(t) == [k |-> "str", t |-> t]
JList(items) == [k |-> "list", items |-> items]
JObj(f) == [k |-> "obj", f |-> f]
EmptyObj == [k |-> "obj", f |-> [key \in {} |-> JNull]]

IsObj(o) == o.k = "obj"
Has(o, key) == key \in DOMAIN o.f
\* dict.get(key, default): the default only when the key is absent.
Get(o, key, default) == IF Has(o, key) THEN o.f[key] ELSE default
\* Python truthiness of a JSON value.
Truthy(v) ==
    CASE v.k = "null" -> FALSE
      [] v.k = "num" -> v.v # 0
      [] v.k = "str" -> TRUE
      [] v.k = "list" -> Len(v.items) > 0
      [] v.k = "obj" -> DOMAIN v.f # {}
\* A field that holds a number or None.
Opt(v) == IF v.k = "num" THEN Some(v.v) ELSE None

\* ------------------------------------------------------------------------
\* Arithmetic helpers.
Range(s) == {s[i] : i \in DOMAIN s}

\* int(x) of a quotient: truncation toward zero.
IntTrunc(num, den) ==
    IF num >= 0 THEN num \div den ELSE -((-num) \div den)

\* round() of the quotient num/den (den > 0): to nearest, ties to even.
RoundHalfEven(num, den) ==
    LET q == num \div den
        r == num % den
    IN  IF 2 * r < den THEN q
        ELSE IF 2 * r > den THEN q + 1
        ELSE IF q % 2 = 0 THEN q ELSE q + 1

RECURSIVE SumSeq(_)
SumSeq(s) == IF Len(s) = 0 THEN 0 ELSE Head(s) + SumSeq(Tail(s))

MinOf(S) == CHOOSE m \in S : \A x \in S : m <= x
MaxOf(S) == CHOOSE m \in S : \A x \in S : m >= x

\* ------------------------------------------------------------------------
\* deg_to_compass
dirs == <<"N", "NNE", "NE", "ENE", "E", "ESE", "SE", "SSE",
          "S", "SSW", "SW", "WSW", "W", "WNW", "NW", "NNW">>

\* A plausible slip: the half-sector offset (+ 11.25) left out.
deg_to_compass_no_offset(d) ==
    IF d = None THEN "?"
    ELSE dirs[(IntTrunc(d[1], 2250) % NumDirs) + 1]

\* d is None or <<hundredths of a degree>>.
deg_to_compass(d) ==
    IF d = None THEN "?"
    ELSE dirs[(IntTrunc(d[1] + 1125, 2250) % NumDirs) + 1]

\* ------------------------------------------------------------------------
\* parse_yr

\* datetime.fromisoformat(...).astimezone(tz).date(): the local calendar day.
LocalDate(h) == (h + TzOffsetHours) \div 24

\* range(5) instead of range(4).
target_dates_one_more(n) == [i \in 1..(WindowDays + 1) |-> LocalDate(n) + (i - 1)]

target_dates(n) == [i \in 1..WindowDays |-> LocalDate(n) + (i - 1)]

Skip == [st |-> "skip", date |-> 0,
         rec |-> [temp |-> None, wind_speed |-> None, wind_dir |-> None, precip_mm |-> None]]
Raise == [st |-> "raise", date |-> 0,
          rec |-> [temp |-> None, wind_speed |-> None, wind_dir |-> None, precip_mm |-> None]]

\* Lines 160-162: the precipitation of the next hour; [raised, v].
item_precip(d) ==
    IF ~Has(d, "next_1_hours") THEN [raised |-> FALSE, v |-> Some(0)]
    ELSE LET n1 == d.f["next_1_hours"] IN
         IF ~IsObj(n1) THEN [raised |-> TRUE, v |-> None]
         ELSE LET det == Get(n1, "details", JNull) IN
              IF ~Truthy(det) THEN [raised |-> FALSE, v |-> Some(0)]
              ELSE IF ~IsObj(det) THEN [raised |-> TRUE, v |-> None]
              ELSE [raised |-> FALSE,
                    v |-> Opt(Get(det, "precipitation_amount", JNum(0)))]

\* The first reading instead of the middle one.
rep_index_first(k) == 0

\* len(wind_dirs)//2
rep_index(k) == k \div 2

\* One pass of the loop body, lines 143-169.
parse_item(item, n) ==
    IF ~IsObj(item) THEN Raise
    ELSE
    LET t_iso == Get(item, "time", JNull) IN
    IF ~Truthy(t_iso) THEN Skip
    ELSE IF ~(t_iso.k = "str" /\ t_iso.t # <<>>) THEN Skip
    ELSE
    LET date == LocalDate(t_iso.t[1]) IN
    IF date \notin Range(target_dates(n)) THEN Skip
    ELSE
    LET d == Get(item, "data", EmptyObj) IN
    IF ~IsObj(d) THEN Raise
    ELSE
    LET instant == Get(d, "instant", EmptyObj) IN
    IF ~IsObj(instant) THEN Raise
    ELSE
    LET details == Get(instant, "details", EmptyObj) IN
    IF ~IsObj(details) THEN Raise
    ELSE
    LET p == item_precip(d) IN
    IF p.raised THEN Raise
    ELSE [st |-> "ok", date |-> date,
          rec |-> [temp |-> Opt(Get(details, "air_temperature", JNull)),
                   wind_speed |-> Opt(Get(details, "wind_speed", JNull)),
                   wind_dir |-> Opt(Get(details, "wind_from_direction", JNull)),
                   precip_mm |-> p.v]]

\* The loop of lines 142-169 over the timeseries; [raised, cand].
RECURSIVE fill_candidates(_, _, _)
fill_candidates(ts, n, cand) ==
    IF Len(ts) = 0 THEN [raised |-> FALSE, cand |-> cand]
    ELSE LET r == parse_item(Head(ts), n) IN
         IF r.st = "raise" THEN [raised |-> TRUE, cand |-> cand]
         ELSE IF r.st = "skip" THEN fill_candidates(Tail(ts), n, cand)
         ELSE fill_candidates(Tail(ts), n,
                  [cand EXCEPT ![r.date] = Append(@, r.rec)])

HasTemp(x) == x.temp # None
HasSpeed(x) == x.wind_speed # None
HasDir(x) == x.wind_dir # None

\* Lines 175-187: the summary of one non-empty bucket.
day_summary(d, lst) ==
    LET temps == {x.temp[1] : x \in Range(SelectSeq(lst, HasTemp))}
        speeds == SelectSeq(lst, HasSpeed)
        wind_speeds == [i \in 1..Len(speeds) |-> speeds[i].wind_speed[1]]
        wdirs == SelectSeq(lst, HasDir)
        total_precip == SumSeq([i \in 1..Len(lst) |-> lst[i].precip_mm[1]])
    IN  [date |-> d,
         temp_min |-> IF temps # {} THEN Some(RoundHalfEven(MinOf(temps), 10)) ELSE None,
         temp_max |-> IF temps # {} THEN Some(RoundHalfEven(MaxOf(temps), 10)) ELSE None,
         wind_speed |-> IF Len(speeds) > 0
                        THEN Some(RoundHalfEven(SumSeq(wind_speeds), Len(speeds)))
                        ELSE None,
         wind_dir_deg |-> IF Len(wdirs) > 0
                          THEN wdirs[rep_index(Len(wdirs)) + 1].wind_dir
                          ELSE None,
         precip_mm |-> RoundHalfEven(total_precip, 10)]

\* sum() over a bucket raises TypeError when an amount is None.
BadBucket(lst) == \E i \in 1..Len(lst) : lst[i].precip_mm = None

\* The loop of lines 172-187, in the order of target_dates.
RECURSIVE summaries(_, _, _)
summaries(td, cand, i) ==
    IF i > Len(td) THEN <<>>
    ELSE IF Len(cand[td[i]]) = 0 THEN summaries(td, cand, i + 1)
    ELSE <<day_summary(td[i], cand[td[i]])>> \o summaries(td, cand, i + 1)

\* The timeseries of a document as lines 136-137 read it; [raised, ts].
get_timeseries(json_data) ==
    IF ~IsObj(json_data) THEN [raised |-> TRUE, ts |-> JNull]
    ELSE LET props == Get(json_data, "properties", EmptyObj) IN
         IF ~IsObj(props) THEN [raised |-> TRUE, ts |-> JNull]
         ELSE [raised |-> FALSE, ts |-> Get(props, "timeseries", JList(<<>>))]

\* parse_yr(json_data) at time n; [raised, forecast].  The forecast is the
\* results dict as the sequence of its values in insertion order.
parse_yr(json_data, n) ==
    LET g == get_timeseries(json_data) IN
    IF g.raised THEN [raised |-> TRUE, forecast |-> <<>>]
    ELSE IF g.ts.k = "obj" /\ ~Truthy(g.ts) THEN [raised |-> FALSE, forecast |-> <<>>]
    ELSE IF g.ts.k # "list" THEN [raised |-> TRUE, forecast |-> <<>>]
    ELSE
    LET td == target_dates(n)
        c == fill_candidates(g.ts.items, n, [d \in Range(td) |-> <<>>])
    IN  IF c.raised THEN [raised |-> TRUE, forecast |-> <<>>]
        ELSE IF \E d \in Range(td) : BadBucket(c.cand[d])
        THEN [raised |-> TRUE, forecast |-> <<>>]
        ELSE [raised |-> FALSE, forecast |-> summaries(td, c.cand, 1)]

\* ------------------------------------------------------------------------
\* parse_current_conditions

NoCurrent == [present |-> FALSE, temp |-> None,
              wind |-> [dir |-> "?", speed |-> None], precip |-> None]

\* Lines 195-206 applied to one timeseries entry; [raised, current].
\* precip is None for the "-" text, else the amount in tenths (.1f).
snapshot(item) ==
    LET bad == [raised |-> TRUE, current |-> NoCurrent] IN
    IF ~IsObj(item) THEN bad
    ELSE
    LET d == Get(item, "data", EmptyObj) IN
    IF ~IsObj(d) THEN bad
    ELSE
    LET instant == Get(d, "instant", EmptyObj) IN
    IF ~IsObj(instant) THEN bad
    ELSE
    LET first == Get(instant, "details", EmptyObj) IN
    IF ~IsObj(first) THEN bad
    ELSE
    LET wind_dir == deg_to_compass(Opt(Get(first, "wind_from_direction", JNull)))
        n1 == Get(d, "next_1_hours", EmptyObj)
        det == IF IsObj(n1) THEN Get(n1, "details", EmptyObj) ELSE JNull
        precip == IF Has(d, "next_1_hours")
                  THEN (IF IsObj(det) THEN Get(det, "precipitation_amount", JNum(0))
                        ELSE JNull)
                  ELSE JNum(0)
    IN  IF Has(d, "next_1_hours") /\ ~(IsObj(n1) /\ IsObj(det)) THEN bad
        ELSE [raised |-> FALSE,
              current |-> [present |-> TRUE,
                           temp |-> Opt(Get(first, "air_temperature", JNull)),
                           wind |-> [dir |-> wind_dir,
                                     speed |-> Opt(Get(first, "wind_speed", JNull))],
                           precip |-> IF Truthy(precip)
                                      THEN Some(RoundHalfEven(precip.v, 10))
                                      ELSE None]]

\* timeseries[0]
current_index(ts) == 1

\* parse_current_conditions(json_data); [raised, current].
parse_current_conditions(json_data) ==
    LET g == get_timeseries(json_data) IN
    IF g.raised THEN [raised |-> TRUE, current |-> NoCurrent]
    ELSE IF ~Truthy(g.ts) THEN [raised |-> FALSE, current |-> NoCurrent]
    ELSE IF g.ts.k # "list" THEN [raised |-> TRUE, current |-> NoCurrent]
    ELSE snapshot(g.ts.items[current_index(g.ts.items)])

\* ------------------------------------------------------------------------
\* Feeds drawn for the aggregation.

Details(t, s, w) ==
    JObj([air_temperature |-> t, wind_speed |-> s, wind_from_direction |-> w])
Instant(det) == JObj([details |-> det])
Rain(amount) == JObj([details |-> JObj([precipitation_amount |-> amount])])
Item(h, d) == JObj([time |-> JStr(<<h>>), data |-> d])

GoodData ==
    JObj([instant |-> Instant(Details(JNum(30), JNum(20), JNum(9000))),
          next_1_hours |-> Rain(JNum(50))])

\* Well-formed entries.  Hours 46..58 are local day 2; hour 21 is 00:00 of
\* local day 1; hour 117 is 00:00 of local day 5.
WellFormed == <<
    Item(46, JObj([instant |-> Instant(Details(JNum(50), JNum(30), JNum(1000))),
                   next_1_hours |-> Rain(JNum(120))])),
    Item(50, JObj([instant |-> Instant(Details(JNum(-20), JNum(40), JNum(35000)))])),
    Item(54, JObj([instant |-> Instant(Details(JNum(45), JNull, JNum(2000))),
                   next_1_hours |-> EmptyObj])),
    Item(58, JObj([instant |-> Instant(JObj([wind_speed |-> JNum(40)]))])),
    Item(21, JObj([instant |-> Instant(Details(JNum(-15), JNum(30), JNum(34875))),
                   next_1_hours |-> Rain(JNum(0))])),
    Item(117, JObj([instant |-> Instant(Details(JNum(10), JNum(50), JNum(1124))),
                    next_1_hours |-> Rain(JNum(30))])) >>

\* Entries with one defect each, all stamped hour 47 (local day 2) when
\* they carry a time.
Malformed == <<
    JObj([data |-> GoodData]),                                  \* no time
    JObj([time |-> JStr(<<>>), data |-> GoodData]),             \* unparseable time
    Item(47, JNull),                                            \* data: null
    Item(47, JStr(<<>>)),                                       \* data: a string
    Item(47, JObj([instant |-> JNull])),                        \* instant: null
    Item(47, JObj([instant |-> JObj([details |-> JNull])])),    \* details: null
    Item(47, JObj([instant |-> Instant(Details(JNum(30), JNum(20), JNum(9000))),
                   next_1_hours |-> JNull])),                   \* next_1_hours: null
    Item(47, JObj([instant |-> Instant(Details(JNum(30), JNum(20), JNum(9000))),
                   next_1_hours |-> Rain(JNull)])) >>           \* amount: null

Catalogue == Range(WellFormed) \cup Range(Malformed)

Feeds == UNION {[1..n -> Catalogue] : n \in 0..MaxFeed}

FeedDoc(ts) == JObj([properties |-> JObj([timeseries |-> JList(ts)])])

\* 23:00 of local day 1 and 00:00 of local day 2.
NowHours == {44, 45}

\* ------------------------------------------------------------------------
\* The bot: command handlers and the forecast pipeline.  Updates are
\* handled one at a time (run_polling without concurrent updates), so a
\* handler is one step.  Chats are private chats, whose id is the user's.

Users == 1..NumUsers
\* Ids a /setadmin argument may name: a user, or an id of nobody (0).
TargetIds == 0..NumUsers
Coords == {[lat |-> 55, lon |-> 37], [lat |-> 59, lon |-> 30]}
Names == {"Moscow"}

\* is_admin(user_id)
is_admin(d, u) == d.admin_id = Some(u)

\* The argument of /setadmin: none, a target that does not resolve (not
\* a number, or a @username get_chat cannot find), or a target that is or
\* resolves to an id.
AdminArgs == {[kind |-> "none", id |-> 0], [kind |-> "unresolved", id |-> 0]}
                 \cup {[kind |-> "id", id |-> t] : t \in TargetIds}

\* set_admin_cmd
set_admin_cmd(u, arg) ==
    /\ LET d == data
           current_admin == d.admin_id
       IN  IF current_admin # None /\ current_admin # Some(0) /\ current_admin # Some(u)
           THEN data' = d
           ELSE IF arg.kind = "none"
           THEN data' = [d EXCEPT !.admin_id = Some(u), !.chat_id = Some(u)]
           ELSE IF arg.kind = "unresolved"
           THEN data' = d
           ELSE data' = [d EXCEPT !.admin_id = Some(arg.id), !.chat_id = Some(u)]
    /\ UNCHANGED <<conv, user_data, run, now, raw, parsed, deg, label>>

\* set_coords, the conversation's entry point: taken only while the user
\* has no conversation open.  args is None (wrong count, or not numbers)
\* or <<coords>>.
set_coords(u, args) ==
    /\ conv[u] = "END"
    /\ IF ~is_admin(data, u) \/ args = None
       THEN UNCHANGED <<conv, user_data>>
       ELSE /\ user_data' = [user_data EXCEPT ![u] = args]
            /\ conv' = [conv EXCEPT ![u] = "NAME"]
    /\ UNCHANGED <<data, run, now, raw, parsed, deg, label>>

\* save_location_name: a text message of a user whose conversation is in
\* state NAME.
save_location_name(u, name) ==
    /\ conv[u] = "NAME"
    /\ data' = [data EXCEPT !.coords = user_data[u],
                            !.location_name = Some(name),
                            !.enabled = TRUE]
    /\ conv' = [conv EXCEPT ![u] = "END"]
    /\ UNCHANGED <<user_data, run, now, raw, parsed, deg, label>>

\* What requests.get(...) and .json() meet: a network error or timeout, or
\* a response with a status and a body that is JSON (doc) or is not.
NetError == [net |-> "error", status |-> 0, json |-> FALSE, doc |-> JNull]
Response(st, doc) == [net |-> "ok", status |-> st, json |-> TRUE, doc |-> doc]
NotJson(st) == [net |-> "ok", status |-> st, json |-> FALSE, doc |-> JNull]
NoResponse == [net |-> "none", status |-> 0, json |-> FALSE, doc |-> JNull]

Statuses == {200, 500}
Docs == {JList(<<>>),                       \* JSON, but not an object
         EmptyObj,                          \* no "properties"
         JObj([properties |-> EmptyObj]),   \* no "timeseries"
         FeedDoc(<<>>),
         FeedDoc(<<WellFormed[5], WellFormed[1]>>),
         FeedDoc(<<WellFormed[1], Malformed[3]>>)}
Responses == {NetError} \cup {NotJson(st) : st \in Statuses}
                        \cup {Response(st, doc) : st \in Statuses, doc \in Docs}

NoImage == [made |-> FALSE, height |-> 0, rows |-> <<>>, banner |-> NoCurrent]

\* Lines 228-333: the canvas and the table, one row per day in the order of
\* sorted(forecast.keys()), which is the order of the dates.
render(forecast, current) ==
    [made |-> TRUE,
     height |-> 140 + IntTrunc(Len(forecast) * 36 * 11, 10),
     rows |-> forecast,
     banner |-> current]

\* build_image with the settings d, meeting response resp at time n;
\* [image, requests]: the image (NoImage for None) and the GETs issued.
build_image(d, resp, n) ==
    IF d.coords = None THEN [image |-> NoImage, requests |-> 0]
    ELSE IF resp.net = "error" \/ ~resp.json THEN [image |-> NoImage, requests |-> 1]
    ELSE LET forecast == parse_yr(resp.doc, n)
             current == parse_current_conditions(resp.doc)
         IN  IF forecast.raised \/ current.raised
             THEN [image |-> NoImage, requests |-> 1]
             ELSE [image |-> render(forecast.forecast, current.current),
                   requests |-> 1]

\* The check of line 338 left out.
coords_unset_never(d) == FALSE

\* not d.get("coords"), line 338
coords_unset(d) == d.coords = None

NoRun == [outcome |-> "none", configured |-> FALSE, requests |-> 0,
          resp |-> NoResponse, image |-> NoImage]

\* forecast_command: a /forecast message (the handler does not read who
\* sent it), the provider answering resp.
forecast_command(resp) ==
    /\ LET d == data IN
       IF coords_unset(d)
       THEN run' = [outcome |-> "not_configured", configured |-> d.coords # None,
                    requests |-> 0, resp |-> NoResponse, image |-> NoImage]
       ELSE LET bio == build_image(d, resp, now) IN
            run' = [outcome |-> IF bio.image.made THEN "photo" ELSE "failure",
                    configured |-> d.coords # None,
                    requests |-> bio.requests,
                    resp |-> IF bio.requests > 0 THEN resp ELSE NoResponse,
                    image |-> bio.image]
    /\ UNCHANGED <<data, conv, user_data, now, raw, parsed, deg, label>>

\* ------------------------------------------------------------------------
\* State of the other parts while one part runs.
NoData == [admin_id |-> None, chat_id |-> None, coords |-> None,
           location_name |-> None, enabled |-> TRUE]
NotParsed == [done |-> FALSE, raised |-> FALSE, forecast |-> <<>>,
              cc_raised |-> FALSE, current |-> NoCurrent]

BotIdle ==
    /\ data = NoData
    /\ conv = [u \in 1..NumUsers |-> "END"]
    /\ user_data = [u \in 1..NumUsers |-> None]
    /\ run = NoRun

\* ------------------------------------------------------------------------
\* The bot's specification.
Init ==
    /\ BotIdle
    /\ now = 44
    /\ raw = JNull
    /\ parsed = NotParsed
    /\ deg = None
    /\ label = "?"

Next ==
    \/ \E u \in Users, arg \in AdminArgs : set_admin_cmd(u, arg)
    \/ \E u \in Users, args \in {None} \cup {Some(c) : c \in Coords} :
          set_coords(u, args)
    \/ \E u \in Users, name \in Names : save_location_name(u, name)
    \/ \E resp \in Responses : forecast_command(resp)

Spec == Init /\ [][Next]_vars

\* ------------------------------------------------------------------------
\* The aggregation applied to every feed.
InitParse ==
    /\ BotIdle
    /\ now \in NowHours
    /\ raw \in {FeedDoc(ts) : ts \in Feeds}
    /\ parsed = NotParsed
    /\ deg = None
    /\ label = "?"

Parse ==
    /\ ~parsed.done
    /\ LET y == parse_yr(raw, now)
           c == parse_current_conditions(raw)
       IN  parsed' = [done |-> TRUE, raised |-> y.raised, forecast |-> y.forecast,
                      cc_raised |-> c.raised, current |-> c.current]
    /\ UNCHANGED <<data, conv, user_data, run, now, raw, deg, label>>

NextParse == Parse

SpecParse == InitParse /\ [][NextParse]_vars

\* ------------------------------------------------------------------------
\* deg_to_compass applied to every bearing of [0, 360], and to None.
Bearings == {None} \cup {Some(d) : d \in 0..36000}

InitCompass ==
    /\ BotIdle
    /\ now = 44
    /\ raw = JNull
    /\ parsed = NotParsed
    /\ deg \in Bearings
    /\ label = ""

Compass ==
    /\ label = ""
    /\ label' = deg_to_compass(deg)
    /\ UNCHANGED <<data, conv, user_data, run, now, raw, parsed, deg>>

NextCompass == Compass

SpecCompass == InitCompass /\ [][NextCompass]_vars

\* ------------------------------------------------------------------------
\* Properties of the bot (Spec).

\* The fetch of a run failed: a network error or timeout, a body that is
\* not JSON, or a status outside 2xx.
FetchFailed(resp) ==
    \/ resp.net = "error"
    \/ resp.net = "ok" /\ ~resp.json
    \/ resp.net = "ok" /\ (resp.status < 200 \/ resp.status > 299)

\* The run fetched a JSON object.
FetchedObject == run.configured /\ run.resp.net = "ok" /\ run.resp.json /\ IsObj(run.resp.doc)

\* C2: a forecast run with no coordinates in the settings ends in the
\* not-configured outcome, and issues no HTTP request.
C2_NotConfiguredNoRequest ==
    (run.outcome # "none" /\ ~run.configured) =>
        /\ run.outcome = "not_configured"
        /\ run.requests = 0
        /\ run.resp = NoResponse
        /\ ~run.image.made

\* A run without coordinates, after an admin was named.
C2_Witness ==
    /\ run.outcome = "not_configured"
    /\ ~run.configured
    /\ data.admin_id # None
    /\ data.coords = None

\* C3: with coordinates configured, a fetch that fails (network error,
\* unparseable body, non-2xx status) ends the run in the failure outcome,
\* with no image produced.
C3_FetchFailureNoImage ==
    (run.configured /\ FetchFailed(run.resp)) =>
        /\ run.outcome = "failure"
        /\ ~run.image.made

\* The run fetched a document whose timeseries is the empty list.
EmptyFeedRun ==
    /\ FetchedObject
    /\ Has(run.resp.doc, "properties")
    /\ IsObj(run.resp.doc.f["properties"])
    /\ Has(run.resp.doc.f["properties"], "timeseries")
    /\ run.resp.doc.f["properties"].f["timeseries"].k = "list"
    /\ Len(run.resp.doc.f["properties"].f["timeseries"].items) = 0

\* C4: a feed with zero timeseries entries aggregates to no day summary and
\* an absent snapshot, and the run ends in a failure outcome rather than
\* in a delivered image without data rows.
C4_EmptyFeedNotRendered ==
    EmptyFeedRun =>
        /\ parse_yr(run.resp.doc, now).forecast = <<>>
        /\ parse_current_conditions(run.resp.doc).current = NoCurrent
        /\ run.outcome = "failure"
        /\ ~run.image.made

\* The object lacks "properties", or "timeseries" under it.
MissingStructure(doc) ==
    \/ ~Has(doc, "properties")
    \/ IsObj(doc.f["properties"]) /\ ~Has(doc.f["properties"], "timeseries")

\* C5: a JSON object without "properties", or without "timeseries" under
\* it, fails the aggregation and the run ends in the failure outcome.
C5_MissingStructureFails ==
    (FetchedObject /\ MissingStructure(run.resp.doc)) =>
        /\ parse_yr(run.resp.doc, now).raised
        /\ run.outcome = "failure"
        /\ ~run.image.made

\* C10: the stored coordinates and location name are written only by the
\* user who is the stored admin at the moment of the write.
C10_OnlyAdminWrites ==
    [][\A u \in Users, name \in Names :
          save_location_name(u, name) => is_admin(data, u)]_vars

\* ------------------------------------------------------------------------
\* Properties of the aggregation (SpecParse) and of deg_to_compass
\* (SpecCompass).

\* The timeseries of raw, a document built by FeedDoc.
TS == raw.f["properties"].f["timeseries"].items

Today == LocalDate(now)

HasIsoTime(item) ==
    /\ Has(item, "time")
    /\ item.f["time"].k = "str"
    /\ item.f["time"].t # <<>>

HourOf(item) == item.f["time"].t[1]

\* C1: the day summaries parse_yr returns are at most 4, each dated within
\* [today, today+3] in the configured time zone, and no date appears twice.
C1_Window ==
    (parsed.done /\ ~parsed.raised) =>
        /\ Len(parsed.forecast) <= 4
        /\ \A i \in 1..Len(parsed.forecast) :
              /\ parsed.forecast[i].date >= Today
              /\ parsed.forecast[i].date <= Today + 3
        /\ \A i, j \in 1..Len(parsed.forecast) :
              parsed.forecast[i].date = parsed.forecast[j].date => i = j

\* A feed of three timed entries, one dated outside the window, summarised
\* in two rows.
C1_Witness ==
    /\ parsed.done /\ ~parsed.raised
    /\ Len(TS) = 3
    /\ \A i \in 1..3 : HasIsoTime(TS[i])
    /\ \E i \in 1..3 : LocalDate(HourOf(TS[i])) > Today + 3
    /\ Len(parsed.forecast) = 2

\* The sequence s without its i-th element.
RemoveAt(s, i) == [j \in 1..(Len(s) - 1) |-> IF j < i THEN s[j] ELSE s[j + 1]]

\* C6: a feed with exactly one malformed entry is parsed without raising,
\* to the summaries of the feed with that entry removed.
C6_OneMalformedDropped ==
    parsed.done =>
        \A i \in 1..Len(TS) :
            (/\ TS[i] \in Range(Malformed)
             /\ \A j \in 1..Len(TS) : j # i => TS[j] \in Range(WellFormed))
            => /\ ~parsed.raised
               /\ parsed.forecast = parse_yr(FeedDoc(RemoveAt(TS, i)), now).forecast

\* C7: the current snapshot is the one of a minimum-timestamp entry of the
\* feed, whatever the order of the entries.
C7_CurrentIsEarliest ==
    (parsed.done /\ Len(TS) > 0 /\ \A i \in 1..Len(TS) : HasIsoTime(TS[i])) =>
        \E i \in 1..Len(TS) :
            /\ \A j \in 1..Len(TS) : HourOf(TS[i]) <= HourOf(TS[j])
            /\ [raised |-> parsed.cc_raised, current |-> parsed.current]
                  = snapshot(TS[i])

\* The non-null direction readings of the entries of ts dated date, in
\* feed order.
RECURSIVE DirReadings(_, _)
DirReadings(ts, date) ==
    IF Len(ts) = 0 THEN <<>>
    ELSE LET it == Head(ts)
             w == it.f["data"].f["instant"].f["details"]
         IN  IF /\ HasIsoTime(it)
                /\ LocalDate(HourOf(it)) = date
                /\ Has(w, "wind_from_direction")
                /\ w.f["wind_from_direction"].k = "num"
             THEN <<w.f["wind_from_direction"].v>> \o DirReadings(Tail(ts), date)
             ELSE DirReadings(Tail(ts), date)

\* C8: a day's wind_dir_deg is the reading at index floor(k/2) of the k
\* non-null direction readings of that day in feed order, and None when
\* k = 0; it is one of the day's readings.
C8_MedianIndexDirection ==
    (parsed.done /\ ~parsed.raised) =>
        \A i \in 1..Len(parsed.forecast) :
            LET r == DirReadings(TS, parsed.forecast[i].date)
                k == Len(r)
                w == parsed.forecast[i].wind_dir_deg
            IN  /\ k = 0 => w = None
                /\ k > 0 => /\ w = Some(r[(k \div 2) + 1])
                            /\ w[1] \in Range(r)
                /\ r = <<1000, 35000, 2000>> => w = Some(35000)

\* Directions 10, 350, 20 in arrival order give 350.
C8_Witness ==
    /\ parsed.done /\ ~parsed.raised
    /\ \E i \in 1..Len(parsed.forecast) :
          /\ DirReadings(TS, parsed.forecast[i].date) = <<1000, 35000, 2000>>
          /\ parsed.forecast[i].wind_dir_deg = Some(35000)

\* C9: every bearing of [0, 360) maps to exactly one of the 16 labels, the
\* one at index floor((deg + 11.25) / 22.5) mod 16; [348.75, 360) and
\* [0, 11.25) map to "N"; an absent bearing maps to "?".
C9_CompassTotal ==
    label # "" =>
        /\ deg = None => label = "?"
        /\ (deg # None /\ deg[1] < 36000) =>
              /\ Cardinality({i \in 1..16 : dirs[i] = label}) = 1
              /\ label = dirs[(((deg[1] + 1125) \div 2250) % 16) + 1]
              /\ (deg[1] >= 34875 \/ deg[1] < 1125) => label = "N"
              /\ (deg[1] >= 1125 /\ deg[1] < 34875) => label # "N"

\* 348.75 degrees has been mapped, to "N".
C9_Witness == deg = Some(34875) /\ label = "N"

====
